---- MODULE Spec2Model ----
(***************************************************************************)
(* Model of the DI container build of the CLI (commands/build-di.ts):      *)
(* buildDI, validateCompilationResult with its nested checkCircular, and   *)
(* the incremental watch mode of setupWatchMode (file-hash cache, debounce *)
(* timer, pending-change set, debounce callbacks).                         *)
(*                                                                         *)
(* An action is one run of the event loop: a handler, or the part of an    *)
(* async function between two awaits whose promises need I/O. Time is not  *)
(* measured: a scheduled timer may fire at any later step, and two         *)
(* notifications lie within the debounce window of each other when no      *)
(* timer fires between them. lastBuildTime is written and never read and   *)
(* is left out.                                                            *)
(***************************************************************************)
EXTENDS Integers, Sequences, FiniteSets, TLC

\* ------------------------------------------------------------------ bounds

\* Longest provider list drawn for validation (SpecValidate).
MaxProviders == 3

\* Tokens of the providers drawn for validation.
Tokens == {"A", "B", "C"}

\* Dependency lists of the providers drawn for validation: the ordered lists
\* of at most two distinct tokens.
DepLists ==
    {<<>>} \cup {<<t>> : t \in Tokens}
           \cup {d \in {<<t, u>> : t \in Tokens, u \in Tokens} : d[1] # d[2]}

Provider == [token : Tokens, dependencies : DepLists]

ProviderLists == UNION {[1..n -> Provider] : n \in 0..MaxProviders}

\* ------------------------------------------------- validateCompilationResult

\* `Missing dependency '${dep}' for provider '${provider.token}'`
MissingMsg(dep, token) ==
    [kind |-> "missing", dep |-> dep, provider |-> token, path |-> <<>>]

\* `Circular dependency detected: ${path.concat(token).join(" -> ")}`
CircularMsg(path, token) ==
    [kind |-> "circular", dep |-> "", provider |-> "", path |-> Append(path, token)]

\* result.providers.some((p) => p.token === dep)
depExists(providers, dep) ==
    \E i \in 1..Len(providers) : providers[i].token = dep

\* Mutant of MissingForProvider: stops at the provider's first missing
\* dependency.
MissingForProviderFirstOnly(providers, provider, j) ==
    LET missing == {k \in j..Len(provider.dependencies) :
                        \A i \in 1..Len(providers) :
                            providers[i].token # provider.dependencies[k]}
    IN IF missing = {} THEN <<>>
       ELSE LET k == CHOOSE m \in missing : \A n \in missing : m <= n
            IN <<[kind |-> "missing", dep |-> provider.dependencies[k],
                  provider |-> provider.token, path |-> <<>>]>>

\* The inner loop of the missing-dependency check, for one provider.
RECURSIVE MissingForProvider(_, _, _)
MissingForProvider(providers, provider, j) ==
    IF j > Len(provider.dependencies) THEN <<>>
    ELSE LET dep == provider.dependencies[j]
             rest == MissingForProvider(providers, provider, j + 1)
         IN IF ~depExists(providers, dep)
            THEN <<MissingMsg(dep, provider.token)>> \o rest
            ELSE rest

\* Mutant of MissingDependencies: stops at the first provider that has a
\* missing dependency.
MissingDependenciesFailFast(providers, i) ==
    LET failing == {k \in i..Len(providers) :
                        MissingForProvider(providers, providers[k], 1) # <<>>}
    IN IF failing = {} THEN <<>>
       ELSE MissingForProvider(
                providers,
                providers[CHOOSE k \in failing : \A m \in failing : k <= m], 1)

\* The outer loop of the missing-dependency check, from provider i on.
RECURSIVE MissingDependencies(_, _)
MissingDependencies(providers, i) ==
    IF i > Len(providers) THEN <<>>
    ELSE MissingForProvider(providers, providers[i], 1)
         \o MissingDependencies(providers, i + 1)

\* result.providers.find((p) => p.token === token): the index of the first
\* provider with that token, 0 when there is none.
findProvider(providers, token) ==
    IF depExists(providers, token)
    THEN CHOOSE i \in 1..Len(providers) :
            /\ providers[i].token = token
            /\ \A k \in 1..(i - 1) : providers[k].token # token
    ELSE 0

\* The state checkCircular closes over (visited, visiting, errors) and the
\* value it returns (ret); entered lists the tokens of the calls that got
\* past the two guards, in the order of visiting.add(token).
RECURSIVE checkCircular(_, _, _, _)
RECURSIVE checkCircularDeps(_, _, _, _, _)

\* Mutant of checkCircular: the test visited.has(token) is left out.
checkCircularNoVisited(providers, token, path, st) ==
    IF token \in st.visiting
    THEN [st EXCEPT !.errors = Append(@, CircularMsg(path, token)), !.ret = TRUE]
    ELSE LET st1 == [st EXCEPT !.visiting = @ \cup {token},
                              !.entered = Append(@, token)]
             k   == findProvider(providers, token)
             st2 == IF k # 0
                    THEN checkCircularDeps(providers, providers[k].dependencies, 1,
                                           Append(path, token), st1)
                    ELSE [st1 EXCEPT !.ret = FALSE]
         IN IF st2.ret
            THEN st2
            ELSE [st2 EXCEPT !.visiting = @ \ {token},
                             !.visited = @ \cup {token},
                             !.ret = FALSE]

\* Mutant of checkCircular: a two-colour traversal, in which a token that
\* was fully resolved before is taken for one on the current path.
checkCircularTwoColour(providers, token, path, st) ==
    IF token \in st.visiting \cup st.visited
    THEN [st EXCEPT !.errors = Append(@, CircularMsg(path, token)), !.ret = TRUE]
    ELSE LET st1 == [st EXCEPT !.visiting = @ \cup {token},
                              !.entered = Append(@, token)]
             k   == findProvider(providers, token)
             st2 == IF k # 0
                    THEN checkCircularDeps(providers, providers[k].dependencies, 1,
                                           Append(path, token), st1)
                    ELSE [st1 EXCEPT !.ret = FALSE]
         IN IF st2.ret
            THEN st2
            ELSE [st2 EXCEPT !.visiting = @ \ {token},
                             !.visited = @ \cup {token},
                             !.ret = FALSE]

\* Mutant of checkCircular: visiting.delete(token) is left out.
checkCircularNoDelete(providers, token, path, st) ==
    IF token \in st.visiting
    THEN [st EXCEPT !.errors = Append(@, CircularMsg(path, token)), !.ret = TRUE]
    ELSE IF token \in st.visited
    THEN [st EXCEPT !.ret = FALSE]
    ELSE LET st1 == [st EXCEPT !.visiting = @ \cup {token},
                              !.entered = Append(@, token)]
             k   == findProvider(providers, token)
             st2 == IF k # 0
                    THEN checkCircularDeps(providers, providers[k].dependencies, 1,
                                           Append(path, token), st1)
                    ELSE [st1 EXCEPT !.ret = FALSE]
         IN IF st2.ret
            THEN st2
            ELSE [st2 EXCEPT !.visited = @ \cup {token}, !.ret = FALSE]

checkCircular(providers, token, path, st) ==
    IF token \in st.visiting
    THEN [st EXCEPT !.errors = Append(@, CircularMsg(path, token)), !.ret = TRUE]
    ELSE IF token \in st.visited
    THEN [st EXCEPT !.ret = FALSE]
    ELSE LET st1 == [st EXCEPT !.visiting = @ \cup {token},
                              !.entered = Append(@, token)]
             k   == findProvider(providers, token)
             st2 == IF k # 0
                    THEN checkCircularDeps(providers, providers[k].dependencies, 1,
                                           Append(path, token), st1)
                    ELSE [st1 EXCEPT !.ret = FALSE]
         IN IF st2.ret
            THEN st2
            ELSE [st2 EXCEPT !.visiting = @ \ {token},
                             !.visited = @ \cup {token},
                             !.ret = FALSE]

\* for (const dep of provider.dependencies) if (checkCircular(dep, ...)) return true
checkCircularDeps(providers, deps, j, path, st) ==
    IF j > Len(deps) THEN [st EXCEPT !.ret = FALSE]
    ELSE LET s == checkCircular(providers, deps[j], path, st)
         IN IF s.ret THEN s
            ELSE checkCircularDeps(providers, deps, j + 1, path, s)

\* for (const provider of result.providers) checkCircular(provider.token)
RECURSIVE CircularLoop(_, _, _)
CircularLoop(providers, i, st) ==
    IF i > Len(providers) THEN st
    ELSE CircularLoop(providers, i + 1,
                      checkCircular(providers, providers[i].token, <<>>, st))

\* The errors array at the end of validateCompilationResult; the function
\* throws exactly when it is not empty.
validateCompilationResult(providers) ==
    CircularLoop(providers, 1,
                 [visiting |-> {}, visited |-> {}, ret |-> FALSE,
                  entered |-> <<>>,
                  errors |-> MissingDependencies(providers, 1)]).errors

\* ------------------------------------------------------------ source tree

\* Debounce timers the watch process may schedule in one run.
MaxTimers == 3

\* Writes to the source tree that the environment performs in one run.
MaxWrites == 1

\* The source files of the project, in directory order (fs.readdir).
Paths == <<"a.ts", "b.ts">>

PathSet == {Paths[i] : i \in 1..Len(Paths)}

\* Versions of a file's text; 0 stands for "the file does not exist".
Versions == {1, 2}

\* The layout the import detection is run on: the two files and a file in a
\* subdirectory, src/sub/c.ts, each in up to four versions.
AffectedPaths == PathSet \cup {"sub/c.ts"}

AffectedVersions == 1..4

\* The layout the seeding pass is run on: the two files and a file in a
\* directory whose name starts with a dot, src/.gen/h.ts.
SeedPaths == PathSet \cup {".gen/h.ts"}

\* Every path of the layouts, in directory order.
AllPaths == <<".gen/h.ts", "a.ts", "b.ts", "sub/c.ts">>

\* The paths of a tree, in directory order.
RECURSIVE Layout(_, _)
Layout(tree, i) ==
    IF i > Len(AllPaths) THEN <<>>
    ELSE (IF AllPaths[i] \in DOMAIN tree THEN <<AllPaths[i]>> ELSE <<>>)
         \o Layout(tree, i + 1)

\* The path lies in a directory whose name starts with ".".
inDotDirectory(p) == p = ".gen/h.ts"

Absent == 0

\* An import statement of a source text: the quote character and the module
\* specifier, as path segments.
ImportStmt(quote, spec) == [quote |-> quote, spec |-> spec]

\* The text of version v of file p: the providers it declares and its
\* import statements.
\*   a.ts v1: A()            a.ts v2: A(B), imports "./b"
\*   b.ts v1: B(A), imports "./a"      b.ts v2: B()
\*   b.ts v3: B(A), imports './a'      b.ts v4: B(), imports the package 'a'
\*   sub/c.ts v1: C(A), imports '../a' sub/c.ts v2: C(A), imports "../a"
\*   sub/c.ts v3: C(), import('../a')  every other version: an empty text
FileText(p, v) ==
    CASE p = "a.ts" /\ v = 1 ->
            [providers |-> <<[token |-> "A", dependencies |-> <<>>]>>,
             imports |-> {}]
      [] p = "a.ts" /\ v = 2 ->
            [providers |-> <<[token |-> "A", dependencies |-> <<"B">>]>>,
             imports |-> {ImportStmt("dq", <<".", "b">>)}]
      [] p = "b.ts" /\ v = 1 ->
            [providers |-> <<[token |-> "B", dependencies |-> <<"A">>]>>,
             imports |-> {ImportStmt("dq", <<".", "a">>)}]
      [] p = "b.ts" /\ v = 2 ->
            [providers |-> <<[token |-> "B", dependencies |-> <<>>]>>,
             imports |-> {}]
      [] p = "b.ts" /\ v = 3 ->
            [providers |-> <<[token |-> "B", dependencies |-> <<"A">>]>>,
             imports |-> {ImportStmt("sq", <<".", "a">>)}]
      [] p = "b.ts" /\ v = 4 ->
            [providers |-> <<[token |-> "B", dependencies |-> <<>>]>>,
             imports |-> {ImportStmt("sq", <<"a">>)}]
      [] p = "sub/c.ts" /\ v = 1 ->
            [providers |-> <<[token |-> "C", dependencies |-> <<"A">>]>>,
             imports |-> {ImportStmt("sq", <<"..", "a">>)}]
      [] p = "sub/c.ts" /\ v = 2 ->
            [providers |-> <<[token |-> "C", dependencies |-> <<"A">>]>>,
             imports |-> {ImportStmt("dq", <<"..", "a">>)}]
      [] p = "sub/c.ts" /\ v = 3 ->
            [providers |-> <<[token |-> "C", dependencies |-> <<>>]>>,
             imports |-> {ImportStmt("dyn", <<"..", "a">>)}]
      [] OTHER -> [providers |-> <<>>, imports |-> {}]

\* ------------------------------------------------------- the AST compiler
\* createASTCompiler comes from @pulzar/core; its scan state is the version
\* of each file it last scanned.

\* compiler.compile(): the providers of every scanned file, in file order.
RECURSIVE compile(_, _)
compile(scan, i) ==
    IF i > Len(Paths) THEN <<>>
    ELSE FileText(Paths[i], scan[Paths[i]]).providers \o compile(scan, i + 1)

\* compiler.incrementalScan(affectedFiles): rescan the affected files only; a
\* file that no longer exists contributes nothing.
incrementalScan(scan, tree, affectedFiles) ==
    [p \in PathSet |-> IF p \in affectedFiles THEN tree[p] ELSE scan[p]]

\* ----------------------------------------------------------------- state

VARIABLES
    proc,            \* "running", "exit0", "exit1": the process and its exit code
    bpc,             \* where buildDI is
    validate,        \* config.validate
    watch,           \* config.watch
    fs,              \* the source tree: path -> version (Absent when missing)
    scanned,         \* the compiler's scan state: path -> version
    result,          \* buildDI's local result (result.providers)
    errors,          \* the errors array of the last validateCompilationResult
    output,          \* the generated container file: <<>> or <<providers>>
    saveCalled,      \* buildDI has called compiler.saveGeneratedCode
    events,          \* notifications the watcher has still to emit
    fileHashes,      \* Map path -> hash
    pendingChanges,  \* Set of paths, in insertion order
    rebuildTimeout,  \* the timer handle, 0 for null
    timers,          \* scheduled timers that have neither fired nor been cleared
    nextTimer,       \* handles handed out so far
    callbacks,       \* debounce callbacks in flight
    writes,          \* writes performed by the environment so far
    burst,           \* history: the notifications of the current quiet burst
    argv,            \* the command line of the build-di / di:watch command
    options          \* the options object commander hands to the action

vars == <<proc, bpc, validate, watch, fs, scanned, result, errors, output,
          saveCalled, events, fileHashes, pendingChanges, rebuildTimeout,
          timers, nextTimer, callbacks, writes, burst, argv, options>>

buildVars == <<bpc, validate, watch, scanned, result, errors, saveCalled>>
watchVars == <<fileHashes, pendingChanges, rebuildTimeout, timers, nextTimer,
               callbacks, burst>>

cmdVars == <<argv, options>>

NoScan == [p \in PathSet |-> Absent]

NoBurst == [active |-> FALSE, paths |-> {}]

\* What Map.get gives for a path without an entry.
Undefined == "undefined"

NoHashes == [p \in PathSet |-> Undefined]

\* buildDI called directly with an options object: no command line.
NoArgv == <<>>

NoOptions == <<>>

\* The state when buildDI is entered.
Init ==
    /\ proc = "running"
    /\ bpc = "scan"
    /\ validate \in BOOLEAN
    /\ watch \in BOOLEAN
    /\ fs \in [PathSet -> {Absent} \cup Versions]
    /\ scanned = NoScan
    /\ result = <<>>
    /\ errors = <<>>
    /\ output = <<>>
    /\ saveCalled = FALSE
    /\ events = <<>>
    /\ fileHashes = NoHashes
    /\ pendingChanges = <<>>
    /\ rebuildTimeout = 0
    /\ timers = {}
    /\ nextTimer = 0
    /\ callbacks = {}
    /\ writes = 0
    /\ burst = NoBurst
    /\ argv = NoArgv
    /\ options = NoOptions

Range(seq) == {seq[i] : i \in 1..Len(seq)}

Running == proc = "running"

\* ------------------------------------------------------ the command line

\* An option that is not on the command line.
NotGiven == "not given"

\* The --debounce values tried.
DebounceArgs == {"0", "50", "150", "300", "1000"}

\* The command lines of build-di and di:watch: --no-validate, -w (build-di
\* only), --debounce <ms> (di:watch only) and -s <dir>.
Argvs ==
    {[command |-> "build-di", noValidate |-> nv, watch |-> w,
      debounce |-> NotGiven, sourceDir |-> sd] :
        nv \in BOOLEAN, w \in BOOLEAN, sd \in {NotGiven, "lib"}}
    \cup
    {[command |-> "di:watch", noValidate |-> nv, watch |-> FALSE,
      debounce |-> d, sourceDir |-> sd] :
        nv \in BOOLEAN, d \in {NotGiven} \cup DebounceArgs,
        sd \in {NotGiven, "lib"}}

\* The value commander presets for `validate` when --no-validate is declared
\* with the default value false: releases before 9 preset true for every
\* --no-x option, later releases preset the declared default. The release
\* the package is built with is not part of the sources.
NegatedOptionDefaults == {"true", "false"}

\* The options object the command's action passes to buildDI; JavaScript
\* values are written as strings. di:watch passes {...options, watch: true}.
parseOptions(args, negatedDefault) ==
    [sourceDir |-> IF args.sourceDir = NotGiven THEN "src" ELSE args.sourceDir,
     watch |-> IF args.command = "di:watch" \/ args.watch
               THEN "true" ELSE "false",
     validate |-> IF args.noValidate THEN "false" ELSE negatedDefault,
     debounce |-> IF args.command = "di:watch"
                  THEN (IF args.debounce = NotGiven THEN "150" ELSE args.debounce)
                  ELSE Undefined]

\* commander parses the command line and calls the action.
CommanderParse ==
    /\ Running /\ bpc = "argv"
    /\ \E nd \in NegatedOptionDefaults : options' = parseOptions(argv, nd)
    /\ bpc' = "options"
    /\ UNCHANGED <<proc, validate, watch, fs, scanned, result, errors, output,
                   saveCalled, events, writes, argv>>
    /\ UNCHANGED watchVars

\* The build and dev commands, which build the DI container as one of their
\* steps (generateDIContainer).
CallerArgvs == {[command |-> c] : c \in {"build", "dev"}}

\* The options generateDIContainer passes to buildDI: sourceDir, outputFile
\* and watch: false; validate is not passed.
GenerateOptions ==
    [sourceDir |-> "src", watch |-> "false", validate |-> Undefined,
     debounce |-> Undefined]

\* x ?? d
Nullish(x, d) == IF x = Undefined THEN d ELSE x

\* const config = { ..., watch: options.watch || false,
\*                  validate: options.validate ?? true }
BuildDIConfig ==
    /\ Running /\ bpc = "options"
    /\ watch' = (options.watch = "true")
    /\ validate' = (Nullish(options.validate, "true") = "true")
    /\ bpc' = "scan"
    /\ UNCHANGED <<proc, fs, scanned, result, errors, output, saveCalled,
                   events, writes>>
    /\ UNCHANGED watchVars
    /\ UNCHANGED cmdVars

\* The delay of the debounce timer.
DebounceMs == 150

\* The delay debouncedRebuild passes to setTimeout when the command was run
\* with the options opts: the literal, whatever opts.debounce is.
timeoutDelay(opts) == DebounceMs

\* ---------------------------------------------------------------- buildDI

\* Mutant of BuildScan: in watch mode the watcher is set up before the
\* initial build.
BuildScanWatchFirst ==
    /\ Running /\ bpc = "scan"
    /\ scanned' = fs
    /\ bpc' = IF watch THEN "setup" ELSE "compile"
    /\ UNCHANGED <<proc, validate, watch, fs, result, errors, output, saveCalled,
                   events, writes>>
    /\ UNCHANGED watchVars
    /\ UNCHANGED cmdVars

\* await compiler.scanProject()
BuildScan ==
    /\ Running /\ bpc = "scan"
    /\ scanned' = fs
    /\ bpc' = "compile"
    /\ UNCHANGED <<proc, validate, watch, fs, result, errors, output, saveCalled,
                   events, writes>>
    /\ UNCHANGED watchVars
    /\ UNCHANGED cmdVars

\* const result = await compiler.compile(); if (config.validate) ...
BuildCompile ==
    /\ Running /\ bpc = "compile"
    /\ result' = compile(scanned, 1)
    /\ bpc' = IF validate THEN "validate" ELSE "save"
    /\ UNCHANGED <<proc, validate, watch, fs, scanned, errors, output, saveCalled,
                   events, writes>>
    /\ UNCHANGED watchVars
    /\ UNCHANGED cmdVars

\* Mutant of AfterValidation: the errors are logged but not thrown.
AfterValidationNoThrow(errs) == [proc |-> "running", bpc |-> "save"]

\* What buildDI does with the errors validateCompilationResult collected: a
\* non-empty errors array is thrown, caught by buildDI and ends in
\* process.exit(1); otherwise the build goes on to saveGeneratedCode.
AfterValidation(errs) ==
    IF Len(errs) > 0
    THEN [proc |-> "exit1", bpc |-> "failed"]
    ELSE [proc |-> "running", bpc |-> "save"]

\* await validateCompilationResult(result)
BuildValidate ==
    /\ Running /\ bpc = "validate"
    /\ errors' = validateCompilationResult(result)
    /\ proc' = AfterValidation(errors').proc
    /\ bpc' = AfterValidation(errors').bpc
    /\ UNCHANGED <<validate, watch, fs, scanned, result, output, saveCalled,
                   events, writes>>
    /\ UNCHANGED watchVars
    /\ UNCHANGED cmdVars

\* await compiler.saveGeneratedCode(config.outputFile, result); then either
\* setupWatchMode is entered or buildDI returns: to generateDIContainer when
\* the build or dev command called it, otherwise the process ends.
BuildSave ==
    /\ Running /\ bpc = "save"
    /\ saveCalled' = TRUE
    /\ output' = <<result>>
    /\ IF watch
       THEN bpc' = "setup" /\ proc' = proc
       ELSE IF argv \in CallerArgvs
            THEN bpc' = "returned" /\ proc' = proc
            ELSE bpc' = "done" /\ proc' = "exit0"
    /\ UNCHANGED <<validate, watch, fs, scanned, result, errors, events, writes>>
    /\ UNCHANGED watchVars
    /\ UNCHANGED cmdVars

\* An exception of the compiler, of the file system or of the dynamic imports
\* inside the try block: logged, then process.exit(1).
BuildFail ==
    /\ Running /\ bpc \in {"scan", "compile", "save", "setup"}
    /\ saveCalled' = (saveCalled \/ bpc = "save")
    /\ proc' = "exit1"
    /\ bpc' = "failed"
    /\ UNCHANGED <<validate, watch, fs, scanned, result, errors, output,
                   events, writes>>
    /\ UNCHANGED watchVars
    /\ UNCHANGED cmdVars

\* generateDIContainer: const { buildDI } = await import("./build-di");
\* await buildDI({ sourceDir, outputFile, watch: false }).
GenerateDIContainer ==
    /\ Running /\ bpc = "generate"
    /\ options' = GenerateOptions
    /\ bpc' = "options"
    /\ UNCHANGED <<proc, validate, watch, fs, scanned, result, errors, output,
                   saveCalled, events, writes, argv>>
    /\ UNCHANGED watchVars

\* The catch block of generateDIContainer: logger.warn, nothing rethrown. The
\* promise of buildDI never rejects (its own catch ends in process.exit(1)),
\* so the block is entered only when the dynamic import is rejected.
GenerateDIContainerCatch ==
    /\ Running /\ bpc = "generate"
    /\ bpc' = "remaining"
    /\ UNCHANGED <<proc, validate, watch, fs, scanned, result, errors, output,
                   saveCalled, events, writes>>
    /\ UNCHANGED watchVars
    /\ UNCHANGED cmdVars

\* buildDI has returned: logger.info("DI container generated"), and the
\* command goes on with its next step.
GenerateDIContainerReturn ==
    /\ Running /\ bpc = "returned"
    /\ bpc' = "remaining"
    /\ UNCHANGED <<proc, validate, watch, fs, scanned, result, errors, output,
                   saveCalled, events, writes>>
    /\ UNCHANGED watchVars
    /\ UNCHANGED cmdVars

\* The steps of the command after generateDIContainer (bundle, copy, write
\* package.json; start the development server).
RemainingSteps ==
    /\ Running /\ bpc = "remaining"
    /\ bpc' = "completed"
    /\ UNCHANGED <<proc, validate, watch, fs, scanned, result, errors, output,
                   saveCalled, events, writes>>
    /\ UNCHANGED watchVars
    /\ UNCHANGED cmdVars

\* --------------------------------------------------------- setupWatchMode

\* The add notifications chokidar emits for the files that exist when the
\* watcher is created (ignoreInitial: false).
RECURSIVE InitialAdds(_, _)
InitialAdds(tree, i) ==
    IF i > Len(Layout(tree, 1)) THEN <<>>
    ELSE (IF tree[Layout(tree, 1)[i]] # Absent
          THEN <<[kind |-> "add", path |-> Layout(tree, 1)[i]]>>
          ELSE <<>>) \o InitialAdds(tree, i + 1)

\* chokidar.watch(...): the watcher exists, initializeFileHashes is awaited.
SetupWatcher ==
    /\ Running /\ bpc = "setup"
    /\ events' = InitialAdds(fs, 1)
    /\ bpc' = "seeding"
    /\ UNCHANGED <<proc, validate, watch, fs, scanned, result, errors, output,
                   saveCalled, writes>>
    /\ UNCHANGED watchVars
    /\ UNCHANGED cmdVars

\* Mutant of getFileHash: a failed read gives undefined instead of "".
getFileHashUndefined(v) ==
    CASE v = Absent -> "undefined"
      [] v = 1 -> "c4ca4238"
      [] v = 2 -> "c81e728d"
      [] v = 3 -> "eccbc87e"
      [] OTHER -> "a87ff679"

\* getFileHash: the md5 digest of the text read, "" when the read fails.
getFileHash(v) ==
    CASE v = Absent -> ""
      [] v = 1 -> "c4ca4238"
      [] v = 2 -> "c81e728d"
      [] v = 3 -> "eccbc87e"
      [] OTHER -> "a87ff679"

\* getSourceFiles: the .ts files found under the source directory; a directory
\* whose name starts with "." (or node_modules) is not entered.
getSourceFiles(tree) ==
    {p \in DOMAIN tree : tree[p] # Absent /\ ~inDotDirectory(p)}

\* initializeFileHashes (the tree is read in one step), then the handlers
\* are registered.
InitializeFileHashes ==
    /\ Running /\ bpc = "seeding"
    /\ fileHashes' = [p \in DOMAIN fs |->
                        IF p \in getSourceFiles(fs)
                        THEN getFileHash(fs[p]) ELSE Undefined]
    /\ bpc' = "watching"
    /\ UNCHANGED <<proc, validate, watch, fs, scanned, result, errors, output,
                   saveCalled, events, writes>>
    /\ UNCHANGED <<pendingChanges, rebuildTimeout, timers, nextTimer, callbacks,
                   burst>>
    /\ UNCHANGED cmdVars

\* ------------------------------------------------------ findAffectedFiles

\* path.dirname(p), as path segments.
dirname(p) == IF p = "sub/c.ts" THEN <<"src", "sub">> ELSE <<"src">>

\* The last segment of p without its .ts extension (.replace(/\.ts$/, "")).
stem(p) ==
    CASE p = "a.ts" -> "a"
      [] p = "b.ts" -> "b"
      [] p = "sub/c.ts" -> "c"
      [] OTHER -> p

\* path.relative(from, to) on path segments.
RECURSIVE relative(_, _)
relative(from, to) ==
    IF from # <<>> /\ to # <<>> /\ Head(from) = Head(to)
    THEN relative(Tail(from), Tail(to))
    ELSE [i \in 1..Len(from) |-> ".."] \o to

\* normalizedPath of the import detection, for `file` and `changedFile`.
normalizedPath(file, changedFile) ==
    relative(dirname(file), Append(dirname(changedFile), stem(changedFile)))

\* content.includes(`from '${normalizedPath}'`) ||
\* content.includes(`from "./${normalizedPath}"`) ||
\* content.includes(`import('${normalizedPath}')`)
importsChanged(text, np) ==
    \/ ImportStmt("sq", np) \in text.imports
    \/ ImportStmt("dq", <<".">> \o np) \in text.imports
    \/ ImportStmt("dyn", np) \in text.imports


\* Mutant of findAffectedFiles: every source file is taken as affected.
findAffectedFilesAll(changedFiles, tree) ==
    Range(changedFiles) \cup {file \in DOMAIN tree : tree[file] # Absent}

\* findAffectedFiles(changedFiles): the changed files and every source file
\* whose text matches an import of one of them.
findAffectedFiles(changedFiles, tree) ==
    Range(changedFiles) \cup
    {file \in getSourceFiles(tree) :
        \E changedFile \in Range(changedFiles) :
            importsChanged(FileText(file, tree[file]),
                           normalizedPath(file, changedFile))}

\* ------------------------------------------------------- debouncedRebuild

\* Mutant of clearTimeout: the previous timer is left scheduled.
clearTimeoutNoop(scheduled, handle) == scheduled

\* clearTimeout(handle) on the set of scheduled timers.
clearTimeout(scheduled, handle) == scheduled \ {handle}

\* Mutant of SetAdd: a path notified while a callback is in flight is dropped.
SetAddWhenIdle(seq, x) ==
    IF x \in Range(seq) \/ callbacks # {} THEN seq ELSE Append(seq, x)

\* pendingChanges.add(filePath): a Set keeps insertion order.
SetAdd(seq, x) == IF x \in Range(seq) THEN seq ELSE Append(seq, x)

\* debouncedRebuild(filePath), the handler of "change" and "add" and the tail
\* of the "unlink" handler.
debouncedRebuild(filePath) ==
    /\ nextTimer < MaxTimers
    /\ pendingChanges' = SetAdd(pendingChanges, filePath)
    /\ timers' = (IF rebuildTimeout # 0
                  THEN clearTimeout(timers, rebuildTimeout)
                  ELSE timers) \cup {nextTimer + 1}
    /\ rebuildTimeout' = nextTimer + 1
    /\ nextTimer' = nextTimer + 1
    /\ burst' = IF burst.active
                THEN [burst EXCEPT !.paths = @ \cup {filePath}]
                ELSE IF timers = {} /\ callbacks = {}
                THEN [active |-> TRUE, paths |-> {filePath}]
                ELSE burst

\* The watcher emits its next notification. Before the handlers are
\* registered nobody listens and the notification is lost.
Deliver ==
    /\ Running /\ events # <<>>
    /\ bpc \in {"seeding", "watching"}
    /\ events' = Tail(events)
    /\ IF bpc = "watching"
       THEN /\ debouncedRebuild(Head(events).path)
            /\ fileHashes' = IF Head(events).kind = "unlink"
                             THEN [fileHashes EXCEPT ![Head(events).path] = Undefined]
                             ELSE fileHashes
            /\ UNCHANGED callbacks
       ELSE UNCHANGED watchVars
    /\ UNCHANGED <<proc, fs, output, writes>>
    /\ UNCHANGED buildVars
    /\ UNCHANGED cmdVars

\* The environment writes, creates, touches or removes a source file; an
\* existing watcher will report it.
FsWrite(p, v) ==
    /\ Running /\ writes < MaxWrites
    /\ ~(fs[p] = Absent /\ v = Absent)
    /\ fs' = [fs EXCEPT ![p] = v]
    /\ writes' = writes + 1
    /\ events' = IF bpc \in {"seeding", "watching"}
                 THEN Append(events,
                        [kind |-> IF fs[p] = Absent THEN "add"
                                  ELSE IF v = Absent THEN "unlink" ELSE "change",
                         path |-> p])
                 ELSE events
    /\ UNCHANGED <<proc, output>>
    /\ UNCHANGED buildVars
    /\ UNCHANGED watchVars
    /\ UNCHANGED cmdVars

\* ------------------------------------------------- the debounce callback

\* Mutant of hasFileChanged: every notified file counts as changed.
hasFileChangedAlways(currentHash, lastHash) == TRUE

\* hasFileChanged: currentHash !== lastHash
hasFileChanged(currentHash, lastHash) == currentHash # lastHash

\* A debounce timer fires: the callback takes the pending set and starts to
\* filter it (it is suspended in the first readFile of getFileHash). With an
\* empty pending set it runs to its end at once.
TimerFire(t) ==
    /\ Running /\ t \in timers
    /\ timers' = timers \ {t}
    /\ pendingChanges' = <<>>
    /\ burst' = NoBurst
    /\ IF pendingChanges = <<>>
       THEN /\ rebuildTimeout' = 0
            /\ callbacks' = callbacks
       ELSE /\ rebuildTimeout' = rebuildTimeout
            /\ callbacks' = callbacks \cup
                 {[id |-> t, files |-> pendingChanges, idx |-> 1, actual |-> <<>>,
                   pc |-> "filter", affected |-> {}, result |-> <<>>,
                   clean |-> burst.active, batch |-> burst.paths,
                   differed |-> {}, hash |-> Undefined]}
    /\ UNCHANGED <<proc, fs, output, events, writes, fileHashes, nextTimer>>
    /\ UNCHANGED buildVars
    /\ UNCHANGED cmdVars

\* The callback cb goes on as ncb, or ends (rebuildTimeout = null).
Continue(cb, ncb, ends) ==
    IF ends
    THEN /\ callbacks' = callbacks \ {cb}
         /\ rebuildTimeout' = 0
    ELSE /\ callbacks' = (callbacks \ {cb}) \cup {ncb}
         /\ rebuildTimeout' = rebuildTimeout

\* await hasFileChanged(file) for the next file of the batch: the read ends,
\* the hashes are compared and the cache is updated. After the last file the
\* callback either enters incrementalRebuild or ends.
\* hasFileChanged after `await getFileHash(filePath)` has given currentHash:
\* the comparison with the recorded hash, the update of the cache and the
\* next turn of the filter loop of the debounce callback.
CompareHash(cb, currentHash) ==
    LET file == cb.files[cb.idx]
        lastHash == fileHashes[file]
        changed == hasFileChanged(currentHash, lastHash)
        actual == IF changed THEN Append(cb.actual, file) ELSE cb.actual
        last == cb.idx = Len(cb.files)
        ncb == [cb EXCEPT !.idx = @ + 1,
                          !.actual = actual,
                          !.differed = IF currentHash # lastHash
                                       THEN @ \cup {file} ELSE @,
                          !.hash = Undefined,
                          !.pc = IF last THEN "affected" ELSE "filter"]
    IN /\ fileHashes' = IF changed
                        THEN [fileHashes EXCEPT ![file] = currentHash]
                        ELSE fileHashes
       /\ Continue(cb, ncb, last /\ Len(actual) = 0)

\* hasFileChanged for the next file of the batch, the file being read and
\* the read completing in one step.
CbHasFileChanged(cb) ==
    /\ Running /\ cb \in callbacks /\ cb.pc = "filter"
    /\ CompareHash(cb, getFileHash(fs[cb.files[cb.idx]]))
    /\ UNCHANGED <<proc, fs, output, events, writes, pendingChanges, timers,
                   nextTimer, burst>>
    /\ UNCHANGED buildVars
    /\ UNCHANGED cmdVars

\* getFileHash: fs.readFile takes the content of the file; the promise is
\* settled later.
CbGetFileHash(cb) ==
    /\ Running /\ cb \in callbacks /\ cb.pc = "filter"
    /\ callbacks' = (callbacks \ {cb}) \cup
                        {[cb EXCEPT !.hash = getFileHash(fs[cb.files[cb.idx]]),
                                    !.pc = "hashing"]}
    /\ UNCHANGED <<proc, fs, output, events, writes, fileHashes, pendingChanges,
                   rebuildTimeout, timers, nextTimer, burst>>
    /\ UNCHANGED buildVars
    /\ UNCHANGED cmdVars

\* The read has completed: hasFileChanged goes on after its await with the
\* hash of the content that was read.
CbReadCompleted(cb) ==
    /\ Running /\ cb \in callbacks /\ cb.pc = "hashing"
    /\ CompareHash(cb, cb.hash)
    /\ UNCHANGED <<proc, fs, output, events, writes, pendingChanges, timers,
                   nextTimer, burst>>
    /\ UNCHANGED buildVars
    /\ UNCHANGED cmdVars

\* incrementalRebuild: const affectedFiles = await findAffectedFiles(changedFiles)
\* (the tree is read in one step).
CbFindAffected(cb) ==
    /\ Running /\ cb \in callbacks /\ cb.pc = "affected"
    /\ LET affectedFiles == findAffectedFiles(cb.actual, fs)
       IN Continue(cb, [cb EXCEPT !.affected = affectedFiles, !.pc = "scan"],
                   Cardinality(affectedFiles) = 0)
    /\ UNCHANGED <<proc, fs, output, events, writes, fileHashes, pendingChanges,
                   timers, nextTimer, burst>>
    /\ UNCHANGED buildVars
    /\ UNCHANGED cmdVars

\* await compiler.incrementalScan(affectedFiles)
CbIncrementalScan(cb) ==
    /\ Running /\ cb \in callbacks /\ cb.pc = "scan"
    /\ scanned' = incrementalScan(scanned, fs, cb.affected)
    /\ Continue(cb, [cb EXCEPT !.pc = "compile"], FALSE)
    /\ UNCHANGED <<proc, fs, output, events, writes, fileHashes, pendingChanges,
                   timers, nextTimer, burst>>
    /\ UNCHANGED <<bpc, validate, watch, result, errors, saveCalled>>
    /\ UNCHANGED cmdVars

\* const result = await compiler.compile()
CbCompile(cb) ==
    /\ Running /\ cb \in callbacks /\ cb.pc = "compile"
    /\ Continue(cb, [cb EXCEPT !.result = compile(scanned, 1), !.pc = "save"], FALSE)
    /\ UNCHANGED <<proc, fs, output, events, writes, fileHashes, pendingChanges,
                   timers, nextTimer, burst>>
    /\ UNCHANGED buildVars
    /\ UNCHANGED cmdVars

\* What incrementalRebuild writes for a compiled result: it calls
\* saveGeneratedCode right after compile, whatever the result.
rebuildOutput(old, providers) == <<providers>>

\* await compiler.saveGeneratedCode(config.outputFile, result); the rebuild
\* and the callback end.
CbSave(cb) ==
    /\ Running /\ cb \in callbacks /\ cb.pc = "save"
    /\ output' = rebuildOutput(output, cb.result)
    /\ Continue(cb, cb, TRUE)
    /\ UNCHANGED <<proc, fs, events, writes, fileHashes, pendingChanges,
                   timers, nextTimer, burst>>
    /\ UNCHANGED buildVars
    /\ UNCHANGED cmdVars

\* Mutant of CbFail: the failure is handled as buildDI's catch block handles
\* it, with process.exit(1).
CbFailExits(cb) ==
    /\ Running /\ cb \in callbacks /\ cb.pc \in {"scan", "compile", "save"}
    /\ Continue(cb, cb, TRUE)
    /\ proc' = "exit1"
    /\ UNCHANGED <<fs, output, events, writes, fileHashes, pendingChanges,
                   timers, nextTimer, burst>>
    /\ UNCHANGED buildVars
    /\ UNCHANGED cmdVars

\* incrementalScan, compile or saveGeneratedCode throws: the catch block of
\* incrementalRebuild logs the error and the callback ends.
CbFail(cb) ==
    /\ Running /\ cb \in callbacks /\ cb.pc \in {"scan", "compile", "save"}
    /\ Continue(cb, cb, TRUE)
    /\ UNCHANGED <<proc, fs, output, events, writes, fileHashes, pendingChanges,
                   timers, nextTimer, burst>>
    /\ UNCHANGED buildVars
    /\ UNCHANGED cmdVars

\* process.on("SIGINT"): clear the timer, close the watcher, process.exit(0).
\* The process is gone: its Map, Set and timer handle no longer exist, and
\* the callbacks that were in flight are cut off where they stood.
Sigint ==
    /\ Running /\ bpc = "watching"
    /\ timers' = IF rebuildTimeout # 0 THEN clearTimeout(timers, rebuildTimeout)
                 ELSE timers
    /\ events' = <<>>
    /\ proc' = "exit0"
    /\ fileHashes' = NoHashes
    /\ pendingChanges' = <<>>
    /\ rebuildTimeout' = 0
    /\ burst' = NoBurst
    /\ UNCHANGED <<fs, output, writes, nextTimer, callbacks>>
    /\ UNCHANGED buildVars
    /\ UNCHANGED cmdVars

\* ---------------------------------------------------------- specifications

Next ==
    \/ BuildScan
    \/ BuildCompile
    \/ BuildValidate
    \/ BuildSave
    \/ BuildFail
    \/ SetupWatcher
    \/ InitializeFileHashes
    \/ Deliver
    \/ \E p \in PathSet, v \in {Absent} \cup Versions : FsWrite(p, v)
    \/ \E t \in timers : TimerFire(t)
    \/ \E cb \in callbacks : CbHasFileChanged(cb)
    \/ \E cb \in callbacks : CbFindAffected(cb)
    \/ \E cb \in callbacks : CbIncrementalScan(cb)
    \/ \E cb \in callbacks : CbCompile(cb)
    \/ \E cb \in callbacks : CbSave(cb)
    \/ \E cb \in callbacks : CbFail(cb)
    \/ Sigint

Spec == Init /\ [][Next]_vars

\* The event loop runs what is due: a scheduled timer fires, a callback
\* suspended in an await goes on when the awaited read has ended, and the
\* watcher emits the notifications it holds.
Fairness ==
    /\ WF_vars(Deliver)
    /\ WF_vars(\E t \in timers : TimerFire(t))
    /\ WF_vars(\E cb \in callbacks : CbHasFileChanged(cb))
    /\ WF_vars(\E cb \in callbacks : CbFindAffected(cb))

FairSpec == Spec /\ Fairness

\* A command line of build-di or di:watch is about to be parsed.
InitCommand ==
    /\ proc = "running"
    /\ bpc = "argv"
    /\ validate = FALSE
    /\ watch = FALSE
    /\ fs = NoScan
    /\ scanned = NoScan
    /\ result = <<>>
    /\ errors = <<>>
    /\ output = <<>>
    /\ saveCalled = FALSE
    /\ events = <<>>
    /\ fileHashes = NoHashes
    /\ pendingChanges = <<>>
    /\ rebuildTimeout = 0
    /\ timers = {}
    /\ nextTimer = 0
    /\ callbacks = {}
    /\ writes = 0
    /\ burst = NoBurst
    /\ argv \in Argvs
    /\ options = NoOptions

NextCommand ==
    \/ CommanderParse
    \/ BuildDIConfig

SpecCommand == InitCommand /\ [][NextCommand]_vars

\* The state in which a debounce callback has filtered its batch down to the
\* files that changed and is about to call findAffectedFiles, on a source
\* tree of the three-file layout.
InitAffected ==
    /\ proc = "running"
    /\ bpc = "watching"
    /\ validate = FALSE
    /\ watch = TRUE
    /\ fs \in [AffectedPaths -> {Absent} \cup AffectedVersions]
    /\ scanned = NoScan
    /\ result = <<>>
    /\ errors = <<>>
    /\ output = <<<<>>>>
    /\ saveCalled = TRUE
    /\ events = <<>>
    /\ fileHashes = [p \in AffectedPaths |-> getFileHash(fs[p])]
    /\ pendingChanges = <<>>
    /\ rebuildTimeout = 1
    /\ timers = {}
    /\ nextTimer = 1
    /\ \E changed \in {<<f>> : f \in AffectedPaths} \cup
                       {c \in AffectedPaths \X AffectedPaths : c[1] # c[2]} :
          callbacks = {[id |-> 1, files |-> changed, idx |-> Len(changed) + 1,
                        actual |-> changed, pc |-> "affected", affected |-> {},
                        result |-> <<>>, clean |-> FALSE, batch |-> {},
                        differed |-> Range(changed), hash |-> Undefined]}
    /\ writes = 0
    /\ burst = NoBurst
    /\ argv = NoArgv
    /\ options = NoOptions

NextAffected == \E cb \in callbacks : CbFindAffected(cb)

SpecAffected == InitAffected /\ [][NextAffected]_vars

\* Watch mode entered after a successful initial build on a tree that also
\* holds src/.gen/h.ts, a file without providers; no file is written after the
\* build.
InitSeed ==
    /\ proc = "running"
    /\ bpc = "setup"
    /\ validate = FALSE
    /\ watch = TRUE
    /\ fs \in [SeedPaths -> {Absent} \cup Versions]
    /\ scanned = [p \in PathSet |-> fs[p]]
    /\ result = compile(scanned, 1)
    /\ errors = <<>>
    /\ output = <<result>>
    /\ saveCalled = TRUE
    /\ events = <<>>
    /\ fileHashes = [p \in SeedPaths |-> Undefined]
    /\ pendingChanges = <<>>
    /\ rebuildTimeout = 0
    /\ timers = {}
    /\ nextTimer = 0
    /\ callbacks = {}
    /\ writes = 0
    /\ burst = NoBurst
    /\ argv = NoArgv
    /\ options = NoOptions

NextSeed ==
    \/ SetupWatcher
    \/ InitializeFileHashes
    \/ Deliver
    \/ \E t \in timers : TimerFire(t)
    \/ \E cb \in callbacks : CbHasFileChanged(cb)
    \/ \E cb \in callbacks : CbFindAffected(cb)
    \/ \E cb \in callbacks : CbIncrementalScan(cb)
    \/ \E cb \in callbacks : CbCompile(cb)
    \/ \E cb \in callbacks : CbSave(cb)
    \/ \E cb \in callbacks : CbFail(cb)
    \/ Sigint

SpecSeed == InitSeed /\ [][NextSeed]_vars

\* Watch mode right after the seeding pass, with the file reads of the
\* debounce callbacks taking time: a read takes the content at one moment
\* and completes at a later one.
InitRead ==
    /\ proc = "running"
    /\ bpc = "watching"
    /\ validate = FALSE
    /\ watch = TRUE
    /\ fs \in [PathSet -> {Absent} \cup Versions]
    /\ scanned = fs
    /\ result = compile(scanned, 1)
    /\ errors = <<>>
    /\ output = <<result>>
    /\ saveCalled = TRUE
    /\ events = InitialAdds(fs, 1)
    /\ fileHashes = [p \in PathSet |->
                       IF p \in getSourceFiles(fs)
                       THEN getFileHash(fs[p]) ELSE Undefined]
    /\ pendingChanges = <<>>
    /\ rebuildTimeout = 0
    /\ timers = {}
    /\ nextTimer = 0
    /\ callbacks = {}
    /\ writes = 0
    /\ burst = NoBurst
    /\ argv = NoArgv
    /\ options = NoOptions

NextRead ==
    \/ Deliver
    \/ \E p \in PathSet, v \in {Absent} \cup Versions : FsWrite(p, v)
    \/ \E t \in timers : TimerFire(t)
    \/ \E cb \in callbacks : CbGetFileHash(cb)
    \/ \E cb \in callbacks : CbReadCompleted(cb)
    \/ \E cb \in callbacks : CbFindAffected(cb)
    \/ \E cb \in callbacks : CbIncrementalScan(cb)
    \/ \E cb \in callbacks : CbCompile(cb)
    \/ \E cb \in callbacks : CbSave(cb)
    \/ \E cb \in callbacks : CbFail(cb)
    \/ Sigint

SpecRead == InitRead /\ [][NextRead]_vars

\* The build and dev commands at their generateDIContainer step.
InitGenerate ==
    /\ proc = "running"
    /\ bpc = "generate"
    /\ validate = FALSE
    /\ watch = FALSE
    /\ fs \in [PathSet -> {Absent} \cup Versions]
    /\ scanned = NoScan
    /\ result = <<>>
    /\ errors = <<>>
    /\ output = <<>>
    /\ saveCalled = FALSE
    /\ events = <<>>
    /\ fileHashes = NoHashes
    /\ pendingChanges = <<>>
    /\ rebuildTimeout = 0
    /\ timers = {}
    /\ nextTimer = 0
    /\ callbacks = {}
    /\ writes = 0
    /\ burst = NoBurst
    /\ argv \in CallerArgvs
    /\ options = NoOptions

NextGenerate ==
    \/ GenerateDIContainer
    \/ GenerateDIContainerCatch
    \/ BuildDIConfig
    \/ BuildScan
    \/ BuildCompile
    \/ BuildValidate
    \/ BuildSave
    \/ BuildFail
    \/ GenerateDIContainerReturn
    \/ RemainingSteps

SpecGenerate == InitGenerate /\ [][NextGenerate]_vars

\* The state right after compiler.compile() has returned an arbitrary
\* provider list, in a build with validation enabled.
InitValidate ==
    /\ proc = "running"
    /\ bpc = "validate"
    /\ validate = TRUE
    /\ watch = FALSE
    /\ fs = NoScan
    /\ scanned = NoScan
    /\ result \in ProviderLists
    /\ errors = <<>>
    /\ output = <<>>
    /\ saveCalled = FALSE
    /\ events = <<>>
    /\ fileHashes = NoHashes
    /\ pendingChanges = <<>>
    /\ rebuildTimeout = 0
    /\ timers = {}
    /\ nextTimer = 0
    /\ callbacks = {}
    /\ writes = 0
    /\ burst = NoBurst
    /\ argv = NoArgv
    /\ options = NoOptions

NextValidate ==
    \/ BuildValidate
    \/ BuildSave

SpecValidate == InitValidate /\ [][NextValidate]_vars

\* ------------------------------------------------- the dependency graph
\* The graph the claims speak of, defined from the provider list alone.

ProviderTokens(providers) == {providers[i].token : i \in 1..Len(providers)}

\* The edges provider -> dependency token.
Edges(providers) ==
    UNION {{<<providers[i].token, d>> : d \in Range(providers[i].dependencies)} :
           i \in 1..Len(providers)}

\* The pairs (provider, token) of a dependency without a provider.
MissingPairs(providers) ==
    {e \in Edges(providers) : e[2] \notin ProviderTokens(providers)}

Successors(providers, S) ==
    {e[2] : e \in {f \in Edges(providers) : f[1] \in S}}

\* The tokens reached from S along 1..n edges.
RECURSIVE ReachedWithin(_, _, _)
ReachedWithin(providers, S, n) ==
    IF n = 0 THEN {}
    ELSE Successors(providers, S)
         \cup ReachedWithin(providers, Successors(providers, S), n - 1)

Reached(providers, t) ==
    ReachedWithin(providers, {t}, Cardinality(ProviderTokens(providers)))

OnCycle(providers, t) == t \in Reached(providers, t)

HasCycle(providers) == \E t \in ProviderTokens(providers) : OnCycle(providers, t)

\* t and u lie on one cycle.
SameCycle(providers, t, u) ==
    t = u \/ (u \in Reached(providers, t) /\ t \in Reached(providers, u))

\* No two providers of the list have the same token.
UniqueTokens(providers) ==
    \A i \in 1..Len(providers), j \in 1..Len(providers) :
        providers[i].token = providers[j].token => i = j

Invalid(providers) == MissingPairs(providers) # {} \/ HasCycle(providers)

CircularErrors(errs) == {errs[i] : i \in {k \in 1..Len(errs) : errs[k].kind = "circular"}}

MissingErrors(errs) == {errs[i] : i \in {k \in 1..Len(errs) : errs[k].kind = "missing"}}

\* validateCompilationResult has run on result.
Validated == bpc \in {"save", "done", "failed"} /\ validate

\* ------------------------------------------------------------------ claims

\* C1: in a full build with validation enabled, when validateCompilationResult
\* finds a missing dependency or a cycle (its errors array is not empty), the
\* build is aborted: saveGeneratedCode is never called and the process exits
\* with a non-zero code.
C1_ValidationErrorsAbortBuild ==
    (validate /\ Len(errors) > 0) => (~saveCalled /\ output = <<>> /\ proc = "exit1")

C1_Witness ==
    validate /\ Len(errors) > 0 /\ proc = "exit1" /\ Invalid(result)

\* C2: in watch mode with validation enabled, an incremental rebuild whose
\* compiled whole-project result has a missing dependency or a cycle does not
\* write the output file.
C2_InvalidRebuildLeavesArtifact ==
    [][(validate /\ bpc = "watching"
        /\ \E cb \in callbacks : cb.pc = "save" /\ Invalid(cb.result)
                                 /\ cb \notin callbacks')
       => output' = output]_vars

\* C3: validation reports every missing dependency: for each pair (provider P,
\* token d) with d in P.dependencies and no provider of token d, an error
\* names d and P; and validation fails when there is such a pair.
C3_EveryMissingDependencyReported ==
    Validated =>
        /\ \A e \in MissingPairs(result) :
              MissingMsg(e[2], e[1]) \in MissingErrors(errors)
        /\ MissingPairs(result) # {} => proc = "exit1"

C3_Witness ==
    /\ Validated
    /\ Cardinality(MissingPairs(result)) >= 2
    /\ Cardinality(MissingErrors(errors)) >= 2
    /\ \E i \in 1..Len(result) :
          Cardinality(Range(result[i].dependencies)
                      \ ProviderTokens(result)) = 2
    /\ proc = "exit1"

\* C4: every provider list whose dependency graph has a cycle (a provider that
\* depends on itself included) fails validation with at least one
\* circular-dependency error, and for A(C), B(A), C(B) in that order the
\* reported cycle is A -> C -> B -> A.
C4_EveryCycleFailsValidation ==
    Validated =>
        /\ HasCycle(result) => (CircularErrors(errors) # {} /\ proc = "exit1")
        /\ result = <<[token |-> "A", dependencies |-> <<"C">>],
                      [token |-> "B", dependencies |-> <<"A">>],
                      [token |-> "C", dependencies |-> <<"B">>]>>
           => CircularMsg(<<"A", "C", "B">>, "A") \in CircularErrors(errors)

\* C5: every reported circular-dependency path has at least two tokens, has
\* equal first and last tokens, and each consecutive pair of its tokens is a
\* dependency edge. Stated on the provider lists with unique tokens, where
\* the graph is the one checkCircular walks.
C5_ReportedPathsAreClosed ==
    (Validated /\ UniqueTokens(result)) =>
        \A m \in CircularErrors(errors) :
            /\ Len(m.path) >= 2
            /\ m.path[1] = m.path[Len(m.path)]
            /\ \A i \in 1..(Len(m.path) - 1) :
                  <<m.path[i], m.path[i + 1]>> \in Edges(result)

\* C6: when the graph has two node-disjoint cycles, one validation pass
\* reports both: for each of the two cycles some reported path goes through
\* the tokens of that cycle. Stated on the provider lists with unique tokens
\* and for two cycles that share no token and do not reach each other both
\* ways.
C6_BothDisjointCyclesReported ==
    (Validated /\ UniqueTokens(result)) =>
        \A t \in ProviderTokens(result), u \in ProviderTokens(result) :
            (OnCycle(result, t) /\ OnCycle(result, u) /\ ~SameCycle(result, t, u))
            => \A c \in {t, u} :
                   \E m \in CircularErrors(errors) :
                       {x \in ProviderTokens(result) : SameCycle(result, c, x)}
                           \subseteq Range(m.path)

\* C7: a provider list with no missing dependency and no cycle passes
\* validation: no error is collected, nothing is thrown and the build goes on
\* to emission.
C7_ValidGraphPasses ==
    (Validated /\ ~Invalid(result)) =>
        (errors = <<>> /\ proc # "exit1" /\ bpc \in {"save", "done"})

C7_Witness ==
    /\ Validated /\ ~Invalid(result)
    /\ Len(result) = MaxProviders
    /\ Cardinality(Edges(result)) >= 3
    /\ bpc = "done" /\ output = <<result>>

\* C8: at no time are two debounce callbacks (hash filtering, scan, compile or
\* save) in flight together.
C8_RebuildsSequential == Cardinality(callbacks) <= 1

\* C9: a burst of notifications that starts with no timer scheduled and no
\* callback in flight, and in which no timer fires between two notifications,
\* is served by exactly one timer, hence one callback; the callback's batch is
\* the set of the notified paths, and the rebuild it invokes gets exactly the
\* notified paths whose content hash differed from the recorded hash.
C9_BurstCoalesced ==
    /\ burst.active =>
          /\ Cardinality(timers) = 1
          /\ callbacks = {}
          /\ Range(pendingChanges) = burst.paths
    /\ \A cb \in callbacks :
          cb.clean =>
             /\ Range(cb.files) = cb.batch
             /\ cb.pc # "filter" =>
                   Range(cb.actual) = {f \in cb.batch : f \in cb.differed}

C9_Witness ==
    \E cb \in callbacks :
        /\ cb.clean
        /\ cb.batch = PathSet
        /\ cb.pc = "scan"
        /\ cb.actual = <<"a.ts">>
        /\ nextTimer = 3

\* C10: whenever a notification arrives while a debounce timer is scheduled
\* and has not fired, that timer is cancelled (so its callback never runs).
C10_PendingTimerSuperseded ==
    [][(nextTimer' = nextTimer + 1) => (timers \cap timers' = {})]_vars

C12_RebuildFailureIsContained ==
    [][\A cb \in callbacks :
          (/\ cb.pc \in {"scan", "compile", "save"}
           /\ \A ncb \in callbacks' : ncb.id # cb.id
           /\ output' = output)
          => /\ proc' = "running"
             /\ bpc' = "watching"
             /\ callbacks' = callbacks \ {cb}
             /\ UNCHANGED <<events, timers, pendingChanges, fileHashes>>]_vars

\* A rebuild attempt after a failed one. The first callback has rescanned and
\* is gone without having saved what it scanned (no other callback has run,
\* so it failed in compile or save); the second timer was set after the first
\* callback had ended (rebuildTimeout still holds its handle), and its
\* callback has found a changed file and stands at the incremental scan.
C12_Witness ==
    /\ Running /\ bpc = "watching"
    /\ nextTimer = 2 /\ rebuildTimeout = 2 /\ timers = {}
    /\ output # <<compile(scanned, 1)>>
    /\ \E cb \in callbacks :
          /\ callbacks = {cb}
          /\ cb.id = 2
          /\ cb.pc = "scan"

\* C13: once the unlink handler has run for a removed file (the file is
\* gone, its cache entry is deleted, its path is pending), an incremental
\* rebuild whose affected set contains the path is invoked and reaches its
\* incremental scan, unless the process is interrupted first.
C13_UnlinkLeadsToRebuild ==
    \A p \in PathSet :
        (Running /\ fs[p] = Absent /\ fileHashes[p] = Undefined
                 /\ p \in Range(pendingChanges))
        ~> (\/ ~Running
            \/ \E cb \in callbacks : cb.pc = "scan" /\ p \in cb.affected)

\* A file of the initial build has been removed, its unlink notification is
\* the only one the handlers have seen, and the callback of its timer stands
\* at the incremental scan with the removed path in the affected set.
C13_Witness ==
    /\ Running /\ writes = 1 /\ nextTimer = 1 /\ events = <<>>
    /\ \E cb \in callbacks :
          /\ cb.pc = "scan"
          /\ \E p \in cb.affected :
                /\ fs[p] = Absent
                /\ fileHashes[p] = ""
                /\ scanned[p] # Absent

\* Module resolution of a relative specifier: the path segments with "." and
\* ".." resolved.
RECURSIVE Normalise(_, _)
Normalise(done, rest) ==
    IF rest = <<>> THEN done
    ELSE IF Head(rest) = "." THEN Normalise(done, Tail(rest))
    ELSE IF Head(rest) = ".." /\ done # <<>>
    THEN Normalise(SubSeq(done, 1, Len(done) - 1), Tail(rest))
    ELSE Normalise(Append(done, Head(rest)), Tail(rest))

Relative(st) == Head(st.spec) \in {".", ".."}

\* The import statement st, written in file g, names the module of file f.
ResolvesTo(g, st, f) ==
    /\ Relative(st)
    /\ Normalise(<<>>, dirname(g) \o st.spec) = Append(dirname(f), stem(f))

\* File g of the tree imports file f.
Imports(tree, g, f) ==
    \E st \in FileText(g, tree[g]).imports : ResolvesTo(g, st, f)

\* File g of the tree imports a package (a bare specifier) spelled like the
\* path of f relative to g's directory.
ImportsNamesake(tree, g, f) ==
    \E st \in FileText(g, tree[g]).imports :
        ~Relative(st) /\ st.spec = normalizedPath(g, f)

Others(tree, fs_) == {g \in DOMAIN tree : tree[g] # Absent} \ fs_

\* The callback has computed its affected set.
AffectedComputed(cb) == cb.pc = "scan"

C15_ImporterAffected ==
    \A cb \in callbacks :
        (AffectedComputed(cb) /\ Len(cb.actual) = 1) =>
            \A g \in Others(fs, {cb.actual[1]}) :
                (/\ \E st \in FileText(g, fs[g]).imports :
                       /\ st.quote \in {"sq", "dq"}
                       /\ ResolvesTo(g, st, cb.actual[1])
                 /\ \A h \in Others(fs, {cb.actual[1], g}) :
                       /\ ~Imports(fs, h, cb.actual[1])
                       /\ ~ImportsNamesake(fs, h, cb.actual[1]))
                => cb.affected = {cb.actual[1], g}

\* buildDI has built its config from the options of a command line.
Configured == bpc = "scan" /\ options # NoOptions

\* C16: for build-di and di:watch the build validates unless --no-validate is
\* on the command line: config.validate is true exactly when the flag is
\* absent.
C16_ValidationIsOptOut ==
    Configured => (validate = ~argv.noValidate)

\* The number a --debounce argument stands for.
Millis(str) ==
    CASE str = "0" -> 0
      [] str = "50" -> 50
      [] str = "150" -> 150
      [] str = "300" -> 300
      [] OTHER -> 1000

\* C17: in di:watch the delay of the debounce timer is the --debounce
\* duration, and 150 ms when the option is not given.
C17_DebounceConfigurable ==
    (Configured /\ argv.command = "di:watch") =>
        timeoutDelay(options) =
            (IF argv.debounce = NotGiven THEN 150 ELSE Millis(argv.debounce))

\* The callback is inside incrementalRebuild.
Rebuilding(cb) == cb.pc \in {"affected", "scan", "compile", "save"}

\* C18: when the watch process has exited on SIGINT, the watcher emits
\* nothing more, the timer rebuildTimeout held is not scheduled, and no
\* callback was cut off inside an incremental rebuild: a rebuild in flight
\* at the signal has ended before the exit.
C18_NoExitDuringRebuild ==
    (proc = "exit0" /\ bpc = "watching") =>
        /\ events = <<>>
        /\ rebuildTimeout \notin timers
        /\ \A cb \in callbacks : ~Rebuilding(cb)

\* Something of watch mode exists: the watcher, a seeded hash, a pending
\* path, a timer or a callback.
WatchSetUp ==
    \/ bpc \in {"seeding", "watching"}
    \/ events # <<>>
    \/ fileHashes # NoHashes
    \/ pendingChanges # <<>>
    \/ nextTimer > 0
    \/ callbacks # {}

\* C19: whenever anything of watch mode exists, the initial build has
\* scanned, compiled (until the first timer is set, result is the compile of
\* the scan), validated (when validation is enabled, with no error) and
\* saved: the artifact is there. A build that failed has exited with code 1,
\* has never set up anything of watch mode, and nothing was written after
\* its own save.
C19_InitialBuildFirst ==
    /\ WatchSetUp =>
          /\ watch
          /\ saveCalled
          /\ nextTimer > 0 \/ result = compile(scanned, 1)
          /\ output # <<>>
          /\ validate => (errors = <<>> /\ validateCompilationResult(result) = <<>>)
    /\ (bpc = "failed" \/ proc = "exit1") =>
          /\ bpc = "failed" /\ proc = "exit1"
          /\ ~WatchSetUp
          /\ output \in {<<>>, <<result>>}

\* Watch mode after a validated initial build of two providers, with an
\* incremental rebuild about to save.
C19_Witness ==
    /\ bpc = "watching" /\ validate /\ Len(result) = 2
    /\ \E cb \in callbacks : cb.pc = "save"

\* Path p waits to be examined: it is pending, or it is in the part of a
\* callback's batch that the callback has not filtered yet.
Waiting(p) ==
    \/ p \in Range(pendingChanges)
    \/ \E cb \in callbacks :
          cb.pc = "filter" /\ \E i \in cb.idx..Len(cb.files) : cb.files[i] = p

\* C20: a notification handled while a callback is in flight puts its path
\* in the pending set and leaves a timer scheduled; a path leaves the pending
\* set of a running process only into the batch of a callback that starts at
\* that moment; and a path that is pending while a callback is in flight is
\* eventually examined (it waits no longer), unless the process is
\* interrupted.
C20_NotificationNeverLost ==
    /\ [][(/\ Running /\ bpc = "watching" /\ callbacks # {}
            /\ events # <<>> /\ events' = Tail(events)
            /\ proc' = "running")
           => /\ Head(events).path \in Range(pendingChanges')
              /\ rebuildTimeout' \in timers']_vars
    /\ [][\A p \in Range(pendingChanges) :
              (p \notin Range(pendingChanges') /\ proc' = "running")
              => \E cb \in callbacks' \ callbacks :
                     cb.idx = 1 /\ p \in Range(cb.files)]_vars
    /\ \A p \in PathSet :
          (Running /\ callbacks # {} /\ p \in Range(pendingChanges))
          ~> (~Running \/ ~Waiting(p))

\* The second notification arrived after the first timer had fired (else it
\* would have cleared that timer) and while the first callback, still inside
\* its rebuild, was in flight; the callback of the second timer has examined
\* its path.
C20_Witness ==
    /\ Running /\ nextTimer = 2
    /\ \E cb1 \in callbacks, cb2 \in callbacks :
          /\ cb1.id = 1 /\ Rebuilding(cb1)
          /\ cb2.id = 2 /\ cb2.idx > 1

\* Watch mode is at rest: every notification has been handled, no timer is
\* scheduled and no callback is in flight.
Quiescent ==
    /\ Running /\ bpc = "watching"
    /\ events = <<>> /\ pendingChanges = <<>>
    /\ timers = {} /\ callbacks = {}

\* C21: when watch mode is at rest, so that the callback of every unlink
\* notification has completed, the cache has no entry for a path whose file
\* does not exist.
C21_DeletionDropsHashEntry ==
    Quiescent => \A p \in PathSet : fs[p] = Absent => fileHashes[p] = Undefined

\* C22: the hash recorded for an existing file is replaced by another hash
\* only by the step that completes a rebuild covering the path (the save of a
\* callback whose affected set holds it); while the change is only detected,
\* while the rebuild runs and after a rebuild that failed, the previous hash
\* stays.
C22_HashReplacedAfterRebuild ==
    [][\A p \in PathSet :
          (/\ fs[p] # Absent
           /\ fileHashes[p] # Undefined
           /\ fileHashes'[p] \notin {fileHashes[p], Undefined}
           /\ proc' = "running")
          => \E cb \in callbacks \ callbacks' :
                 cb.pc = "save" /\ p \in cb.affected]_vars

\* C23: When no source file is modified after watch mode starts, the add
\* notifications the watcher emits for the files that already exist never lead
\* to an incremental rebuild, for every file the watcher reports: no debounce
\* callback ever gets past the hash comparison into incrementalRebuild.
C23_SeedingTriggersNoRebuild ==
    writes = 0 => \A cb \in callbacks : ~Rebuilding(cb)

\* C24: A provider list in which two providers have the same token fails
\* validateCompilationResult, even when it has no missing dependency and no
\* cycle: an error is collected and the build ends in process.exit(1).
C24_DuplicateTokensFailValidation ==
    (Validated /\ ~UniqueTokens(result)) => (errors # <<>> /\ proc = "exit1")

\* C25: A failure of the DI build inside the build command or the dev command
\* (scan, compile, validation or save error) is non-fatal: the process is not
\* terminated with exit code 1, generateDIContainer logs a warning and the
\* command continues with its remaining steps.
C25_DIFailureIsNonFatal ==
    argv \in CallerArgvs => proc # "exit1"

\* C26: whenever watch mode is at rest (every notification handled, no
\* debounce timer pending, no debounce callback in flight), the hash recorded
\* for an existing file that was seeded or notified is the hash of the file's
\* current content, whatever the interleaving of notifications, timer firings
\* and file-read completions was.
C26_QuiescentCacheConsistent ==
    Quiescent =>
        \A p \in PathSet :
            (fs[p] # Absent /\ fileHashes[p] # Undefined)
            => fileHashes[p] = getFileHash(fs[p])

\* C27: in watch mode at most one debounce timer is scheduled at any time,
\* and whenever a timer is pending rebuildTimeout refers to it, so that the
\* next notification (or SIGINT) cancels it.
C27_AtMostOneTimer ==
    Running =>
        /\ Cardinality(timers) <= 1
        /\ timers # {} => rebuildTimeout \in timers

\* C28: for every provider list whose dependency graph is acyclic, with or
\* without missing dependencies, validation produces no "Circular dependency
\* detected" error; the only errors are those of the missing-dependency
\* check, so a dependency token without a provider ends the traversal
\* without an error of the cycle check.
C28_NoFalseCycleReport ==
    (Validated /\ ~HasCycle(result)) =>
        /\ CircularErrors(errors) = {}
        /\ errors = MissingDependencies(result, 1)

\* An acyclic list in which a token without a provider is the dependency of
\* two providers, one of which depends on the other, validated: the traversal
\* comes to the token twice.
C28_Witness ==
    /\ Validated /\ ~HasCycle(result)
    /\ UniqueTokens(result)
    /\ \E e \in MissingPairs(result), f \in MissingPairs(result) :
          /\ e[2] = f[2]
          /\ <<e[1], f[1]>> \in Edges(result)
    /\ bpc = "failed" /\ CircularErrors(errors) = {}

\* The permutations of 1..n.
Perms(n) == {f \in [1..n -> 1..n] : \A i, j \in 1..n : f[i] = f[j] => i = j}

\* The permutations of the positions of a dependency list.
DepPerms == UNION {Perms(Len(d)) : d \in DepLists}

Reorder(list, f) == [i \in 1..Len(list) |-> list[f[i]]]

\* The lists that hold the providers of the list in any order, each with its
\* dependency tokens in any order.
Rearrangements(providers) ==
    {[i \in 1..Len(providers) |->
         [token |-> providers[f[i]].token,
          dependencies |-> Reorder(providers[f[i]].dependencies, h[i])]] :
       <<f, h>> \in
         {fh \in Perms(Len(providers)) \X [1..Len(providers) -> DepPerms] :
             \A i \in 1..Len(providers) :
                 fh[2][i] \in Perms(Len(providers[fh[1][i]].dependencies))}}

\* C29: for a provider list without duplicate tokens, the outcome of
\* validation does not depend on the order of the providers or on the order
\* of the tokens in the dependency lists: every rearrangement of the list
\* passes exactly when the list passes and gives the same set of
\* missing-dependency messages.
C29_OrderIndependent ==
    (Validated /\ UniqueTokens(result)) =>
        \A q \in Rearrangements(result) :
            /\ (validateCompilationResult(q) = <<>>) <=> (errors = <<>>)
            /\ MissingErrors(validateCompilationResult(q)) = MissingErrors(errors)

\* A list with two missing dependencies and a cycle has been validated, and
\* one of its rearrangements gives the messages in another order.
C29_Witness ==
    /\ Validated /\ UniqueTokens(result)
    /\ Cardinality(MissingErrors(errors)) >= 2
    /\ CircularErrors(errors) # {}
    /\ \E q \in Rearrangements(result) : validateCompilationResult(q) # errors

\* The tokens of the calls of checkCircular that got past its guards during
\* the validation of the list, in call order.
Entered(providers) ==
    CircularLoop(providers, 1,
                 [visiting |-> {}, visited |-> {}, ret |-> FALSE,
                  entered |-> <<>>, errors |-> <<>>]).entered

\* The tokens of the list: those of the providers and of the dependencies.
AllTokens(providers) ==
    ProviderTokens(providers) \cup {e[2] : e \in Edges(providers)}

\* C30: validateCompilationResult terminates on every provider list, cyclic
\* graphs, self-dependencies, missing dependencies and duplicate tokens
\* included: checkCircular never goes past its guards for a token that is
\* already in the visiting or the visited set, so no token is entered twice
\* and the number of entered calls is at most the number of tokens.
C30_ValidationTerminates ==
    Validated =>
        LET entered == Entered(result)
        IN /\ Cardinality(Range(entered)) = Len(entered)
           /\ Range(entered) \subseteq AllTokens(result)
           /\ Len(entered) <= Cardinality(AllTokens(result))

\* Validation has ended on a list with a duplicated token, a provider that
\* depends on itself, a cycle through two providers and a missing
\* dependency.
C30_Witness ==
    /\ Validated /\ bpc = "failed"
    /\ ~UniqueTokens(result)
    /\ \E t \in ProviderTokens(result) : <<t, t>> \in Edges(result)
    /\ \E t, u \in ProviderTokens(result) :
          t # u /\ <<t, u>> \in Edges(result) /\ <<u, t>> \in Edges(result)
    /\ MissingPairs(result) # {}
    /\ Len(Entered(result)) >= 2

====
